---------------------------- MODULE Spec2Model ----------------------------
(***************************************************************************)
(* Keep-ups (src/game.js): the sensor-to-physics frame loop.               *)
(*                                                                         *)
(* Units.  Landmark coordinates and visibilities are hundredths (0.3 is    *)
(* 30), world lengths and velocities are thousandths (4.0 is 4000), time   *)
(* is milliseconds.  The rigid-body library (physicsWorld.step) is outside *)
(* the repository: one step yields any ball state and any batch of         *)
(* collision events of the sets the specification is given.                *)
(***************************************************************************)
EXTENDS Integers, Sequences, FiniteSets, TLC

VARIABLES
    pc,                         \* position of the single JS thread
    now,                        \* wall clock, ms since the THREE.Clock started
    frameDue,                   \* the clock advanced since the last frame
    rafPending,                 \* requestAnimationFrame(animate) is registered
    loadingMessage,             \* loadingMessage.innerText / colour
    boot,                       \* the start-up steps that have succeeded
    lastPoseResults,
    delivered,                  \* the result the pose pipeline delivered last
    isTPosing, tPoseStartTime, tPoseResetCooldownActive,
    tposeIndicator,             \* tposeIndicatorElement.style.display
    score, scoreText, ballJustHitPlayer,
    ballBody,                   \* translation and linvel of the ball
    ballColor,                  \* ballMesh.material.color
    limbNext,                   \* next kinematic translation set this frame
    limbPos,                    \* translation of each limb's kinematic body
    meshVisible,                \* marker mesh .visible of each limb
    eventQueue,
    timers, flashTimeout,       \* pending setTimeout callbacks, the flash handle
    frame,                      \* what the running frame has done so far
    run,                        \* the run of true detections the frames are in
    holdResets                  \* timestamps of the hold-triggered resets

vars == << pc, now, frameDue, rafPending, loadingMessage, boot,
           lastPoseResults, delivered,
           isTPosing, tPoseStartTime, tPoseResetCooldownActive, tposeIndicator,
           score, scoreText, ballJustHitPlayer, ballBody, ballColor,
           limbNext, limbPos, meshVisible, eventQueue, timers, flashTimeout,
           frame, run, holdResets >>

---------------------------------------------------------------------------
(* Bounds of the model *)

MaxTime == 3500
MaxScore == 2

---------------------------------------------------------------------------
(* Program constants *)

ballRadius == 250
groundMeshY == 0 - 500
COLLISION_BASE_IMPULSE_Y == 700
MAX_UPWARD_VELOCITY == 5000
Z_DAMPING_TENTHS == 8
Z_CORRECTION_TENTHS == 1
T_POSE_DURATION_THRESHOLD_MS == 700
T_POSE_RESET_COOLDOWN_MS == 2000
LANDMARK_VISIBILITY_THRESHOLD == 40
MAP_VISIBILITY_THRESHOLD == 30
L_SHOULDER == 11
R_SHOULDER == 12
L_ELBOW == 13
R_ELBOW == 14
L_WRIST == 15
R_WRIST == 16
L_KNEE == 25
R_KNEE == 26
L_ANKLE == 27
R_ANKLE == 28
BallInvMassMilli == 13890
START_Y == 4000

Joints == {L_SHOULDER, R_SHOULDER, L_ELBOW, R_ELBOW, L_WRIST, R_WRIST,
           L_KNEE, R_KNEE, L_ANKLE, R_ANKLE}

Limbs == {"leftKnee", "rightKnee", "leftFoot", "rightFoot"}

LimbJoint(limb) ==
    CASE limb = "leftKnee"  -> L_KNEE
      [] limb = "rightKnee" -> R_KNEE
      [] limb = "leftFoot"  -> L_ANKLE
      [] limb = "rightFoot" -> R_ANKLE

Vec(px, py, pz) == [x |-> px, y |-> py, z |-> pz]

\* createKinematicDesc: the limb bodies are created at (-10, -10, -10)
Parked == Vec(0 - 10000, 0 - 10000, 0 - 10000)

Abs(n) == IF n < 0 THEN 0 - n ELSE n

Max(a, b) == IF a > b THEN a ELSE b

---------------------------------------------------------------------------
(* Landmarks and pose results *)

Lm(px, py, vis) == [present |-> TRUE, x |-> px, y |-> py, visibility |-> vis]

NoLm == [present |-> FALSE, x |-> 0, y |-> 0, visibility |-> 0]

NoPoint == [ok |-> FALSE, x |-> 0, y |-> 0, z |-> 0]

\* seeded fault: a landmark at the threshold itself is rejected
mapLandmarkToWorld_Inclusive(landmark) ==
    IF ~landmark.present \/ landmark.visibility <= MAP_VISIBILITY_THRESHOLD
    THEN NoPoint
    ELSE [ok |-> TRUE,
          x  |-> (100 - landmark.x - 50) * 35,
          y  |-> Max(0, (100 - landmark.y) * 35 + 100),
          z  |-> 0]

\* worldWidth = worldHeight = 3.5, yOffset = 0.1, xOffset = 0
mapLandmarkToWorld(landmark) ==
    IF ~landmark.present \/ landmark.visibility < MAP_VISIBILITY_THRESHOLD
    THEN NoPoint
    ELSE [ok |-> TRUE,
          x  |-> (100 - landmark.x - 50) * 35,
          y  |-> Max(0, (100 - landmark.y) * 35 + 100),
          z  |-> 0]

\* seeded fault: a joint at the threshold itself counts as visible
Visible_Inclusive(lm) == lm.present /\ lm.visibility >= LANDMARK_VISIBILITY_THRESHOLD

Visible(lm) == lm.present /\ lm.visibility > LANDMARK_VISIBILITY_THRESHOLD

\* seeded fault: the right arm is tested in the left arm's direction
checkTPose_SameDirection(landmarks) ==
    LET lShoulder == landmarks[L_SHOULDER]
        rShoulder == landmarks[R_SHOULDER]
        lElbow    == landmarks[L_ELBOW]
        rElbow    == landmarks[R_ELBOW]
        lWrist    == landmarks[L_WRIST]
        rWrist    == landmarks[R_WRIST]
    IN  IF ~(\A lm \in {lShoulder, rShoulder, lElbow, rElbow, lWrist, rWrist} :
                Visible(lm))
        THEN FALSE
        ELSE LET leftArmHorizontal  == lElbow.y < lShoulder.y + 30
                                       /\ lWrist.y < lElbow.y + 30
                 leftArmExtended    == Abs(lElbow.x - lShoulder.x) > 10
                                       /\ Abs(lWrist.x - lElbow.x) > 10
                 leftArmOutward     == lElbow.x > lShoulder.x
                                       /\ lWrist.x > lElbow.x
                 rightArmHorizontal == rElbow.y < rShoulder.y + 30
                                       /\ rWrist.y < rElbow.y + 30
                 rightArmExtended   == Abs(rElbow.x - rShoulder.x) > 10
                                       /\ Abs(rWrist.x - rElbow.x) > 10
                 rightArmOutward    == rElbow.x > rShoulder.x
                                       /\ rWrist.x > rElbow.x
             IN  leftArmHorizontal /\ leftArmExtended /\ leftArmOutward
                 /\ rightArmHorizontal /\ rightArmExtended /\ rightArmOutward

\* yTolerance = 0.3, xToleranceShoulder = xToleranceElbow = 0.1
checkTPose(landmarks) ==
    LET lShoulder == landmarks[L_SHOULDER]
        rShoulder == landmarks[R_SHOULDER]
        lElbow    == landmarks[L_ELBOW]
        rElbow    == landmarks[R_ELBOW]
        lWrist    == landmarks[L_WRIST]
        rWrist    == landmarks[R_WRIST]
    IN  IF ~(\A lm \in {lShoulder, rShoulder, lElbow, rElbow, lWrist, rWrist} :
                Visible(lm))
        THEN FALSE
        ELSE LET leftArmHorizontal  == lElbow.y < lShoulder.y + 30
                                       /\ lWrist.y < lElbow.y + 30
                 leftArmExtended    == Abs(lElbow.x - lShoulder.x) > 10
                                       /\ Abs(lWrist.x - lElbow.x) > 10
                 leftArmOutward     == lElbow.x > lShoulder.x
                                       /\ lWrist.x > lElbow.x
                 rightArmHorizontal == rElbow.y < rShoulder.y + 30
                                       /\ rWrist.y < rElbow.y + 30
                 rightArmExtended   == Abs(rElbow.x - rShoulder.x) > 10
                                       /\ Abs(rWrist.x - rElbow.x) > 10
                 rightArmOutward    == rElbow.x < rShoulder.x
                                       /\ rWrist.x < rElbow.x
             IN  leftArmHorizontal /\ leftArmExtended /\ leftArmOutward
                 /\ rightArmHorizontal /\ rightArmExtended /\ rightArmOutward

NoResults == [stored |-> FALSE, hasLandmarks |-> FALSE,
              poseLandmarks |-> [j \in Joints |-> NoLm]]

\* a result whose poseLandmarks is undefined (nobody in view)
EmptyResults == [stored |-> TRUE, hasLandmarks |-> FALSE,
                 poseLandmarks |-> [j \in Joints |-> NoLm]]

Results(lms) == [stored |-> TRUE, hasLandmarks |-> TRUE, poseLandmarks |-> lms]

\* lastPoseResults && lastPoseResults.poseLandmarks
PoseAvailable(res) == res.stored /\ res.hasLandmarks

ArmJoints == {L_SHOULDER, R_SHOULDER, L_ELBOW, R_ELBOW, L_WRIST, R_WRIST}

ArmsOf(ls, rs, le, re, lw, rw) ==
    [j \in ArmJoints |->
        CASE j = L_SHOULDER -> ls
          [] j = R_SHOULDER -> rs
          [] j = L_ELBOW    -> le
          [] j = R_ELBOW    -> re
          [] j = L_WRIST    -> lw
          [] j = R_WRIST    -> rw]

Arms(lWristX, wristVis) ==
    [j \in {L_SHOULDER, R_SHOULDER, L_ELBOW, R_ELBOW, L_WRIST, R_WRIST} |->
        CASE j = L_SHOULDER -> Lm(60, 30, 90)
          [] j = R_SHOULDER -> Lm(40, 30, 90)
          [] j = L_ELBOW    -> Lm(75, 30, 90)
          [] j = R_ELBOW    -> Lm(25, 30, 90)
          [] j = L_WRIST    -> Lm(lWristX, 30, wristVis)
          [] j = R_WRIST    -> Lm(10, 30, 90)]

Legs(lk, rk, la, ra) ==
    [j \in {L_KNEE, R_KNEE, L_ANKLE, R_ANKLE} |->
        CASE j = L_KNEE  -> lk
          [] j = R_KNEE  -> rk
          [] j = L_ANKLE -> la
          [] j = R_ANKLE -> ra]

\* arms out, every leg joint seen
PoseT == Results(Arms(90, 90) @@ Legs(Lm(56, 70, 90), Lm(44, 70, 90),
                                       Lm(56, 96, 90), Lm(44, 96, 30)))

\* arms out, the left leg lost: knee absent, ankle below the mapper's threshold
PoseTLegLost == Results(Arms(90, 90) @@ Legs(NoLm, Lm(40, 60, 90),
                                              Lm(56, 96, 29), Lm(44, 96, 90)))

\* the left wrist inside the elbow: no T-pose
PoseDown == Results(Arms(70, 90) @@ Legs(Lm(60, 72, 90), Lm(44, 70, 90),
                                          Lm(60, 98, 90), Lm(44, 96, 90)))

\* arms out, the player a step to the side: shoulders at x = 0.70 and 0.50
PoseTAside ==
    Results(ArmsOf(Lm(70, 30, 90), Lm(50, 30, 90), Lm(85, 30, 90),
                   Lm(35, 30, 90), Lm(98, 30, 90), Lm(20, 30, 90))
            @@ Legs(Lm(66, 70, 90), Lm(54, 70, 90), Lm(66, 96, 90),
                    Lm(54, 96, 90)))

\* arms out, the shoulders dim (between the mapper's and the detector's
\* thresholds): no T-pose
PoseTDimShoulders ==
    Results(ArmsOf(Lm(60, 30, 35), Lm(40, 30, 35), Lm(75, 30, 90),
                   Lm(25, 30, 90), Lm(90, 30, 90), Lm(10, 30, 90))
            @@ Legs(Lm(56, 70, 90), Lm(44, 70, 90), Lm(56, 96, 90),
                    Lm(44, 96, 90)))

\* T geometry with one wrist at the detector's visibility threshold, no legs
PoseDim == Results(Arms(90, 40) @@ Legs(NoLm, NoLm, NoLm, Lm(44, 96, 10)))


---------------------------------------------------------------------------
(* Timers: setTimeout / clearTimeout *)

FreshId(T) == CHOOSE n \in 1..(Cardinality(T) + 1) : \A t \in T : t.id # n

\* seeded fault: clearing one timer clears every pending timer
ClearTimeout_EveryTimer(T, handle) == {}

\* clearTimeout(handle); 0 stands for null
ClearTimeout(T, handle) == {t \in T : t.id # handle}

SetTimeout(T, kind, delay) ==
    T \cup {[id |-> FreshId(T), kind |-> kind, due |-> now + delay]}

\* seeded fault: the pending flash timer is left armed
FlashTimers_NoClear(T, handle) == T

\* flashBallColor: the pending flash timer is cancelled before the new one is armed
FlashTimers(T, handle) == IF handle # 0 THEN ClearTimeout(T, handle) ELSE T

FlashHandle(T, handle) == FreshId(FlashTimers(T, handle))

flashBallColor(color, durationMs) ==
    /\ timers' = SetTimeout(FlashTimers(timers, flashTimeout), "flash", durationMs)
    /\ flashTimeout' = FlashHandle(timers, flashTimeout)
    /\ ballColor' = color

---------------------------------------------------------------------------
(* The ball *)

Ball(pos, linvel) == [pos |-> pos, linvel |-> linvel]

\* Math.random() in hundredths
RandomSamples == {0, 50}

Undefined == [def |-> FALSE, v |-> 0]

Defined(n) == [def |-> TRUE, v |-> n]

\* resetBall(spawnX, spawnZ); rx and rz are the two Math.random() draws
resetBall(spawnX, spawnZ, rx, rz) ==
    LET startX == IF spawnX.def THEN spawnX.v ELSE (rx - 50) * 10
        startZ == IF spawnZ.def THEN spawnZ.v ELSE (rz - 50) * 2
    IN  Ball(Vec(startX, START_Y, startZ), Vec(0, 0 - 500, 0))

\* ballBody.applyImpulse(impulse): the velocity changes by impulse / mass
applyImpulse(ball, impulse) ==
    [ball EXCEPT !.linvel =
        Vec(@.x + (impulse.x * BallInvMassMilli) \div 1000,
            @.y + (impulse.y * BallInvMassMilli) \div 1000,
            @.z + (impulse.z * BallInvMassMilli) \div 1000)]

---------------------------------------------------------------------------
(* What a frame has done so far, and the runs of detections *)

NoFrame == [active |-> FALSE, score0 |-> 0, seen |-> 0, hits |-> 0,
            impulse |-> Vec(0, 0, 0),
            hold |-> FALSE, drop |-> FALSE, oob |-> FALSE, cue |-> "none",
            held |-> FALSE]

\* a frame begins: the score and the hold state it finds
NewFrame == [NoFrame EXCEPT !.active = TRUE, !.score0 = score,
                            !.held = isTPosing]

NoRun == [state |-> "none", start |-> 0, last |-> 0, resets |-> 0]

Init ==
    /\ pc = "init"
    /\ now = 0
    /\ frameDue = FALSE
    /\ rafPending = FALSE
    /\ loadingMessage = "loading"
    /\ boot = << >>
    /\ lastPoseResults = NoResults
    /\ delivered = NoResults
    /\ isTPosing = FALSE
    /\ tPoseStartTime = 0
    /\ tPoseResetCooldownActive = FALSE
    /\ tposeIndicator = "none"
    /\ score = 0
    /\ scoreText = 0
    /\ ballJustHitPlayer = FALSE
    /\ ballBody = Ball(Vec(0, START_Y, 0), Vec(0, 0, 0))
    /\ ballColor = "white"
    /\ limbNext = [l \in Limbs |-> NoPoint]
    /\ limbPos = [l \in Limbs |-> Parked]
    /\ meshVisible = [l \in Limbs |-> TRUE]
    /\ eventQueue = << >>
    /\ timers = {}
    /\ flashTimeout = 0
    /\ frame = NoFrame
    /\ run = NoRun
    /\ holdResets = << >>

gameVars == << lastPoseResults, delivered, isTPosing, tPoseStartTime,
               tPoseResetCooldownActive, tposeIndicator, score, scoreText,
               ballJustHitPlayer, ballBody, ballColor, limbNext, limbPos,
               meshVisible, eventQueue, timers, flashTimeout, frame, run,
               holdResets >>

---------------------------------------------------------------------------
(* Start-up: init() and initMediapipe() *)

\* await RAPIER.init({}) resolves
RapierInits ==
    /\ pc = "init"
    /\ pc' = "scene"
    /\ loadingMessage' = "Initializing Three.js Scene"
    /\ boot' = Append(boot, "RAPIER.init")
    /\ UNCHANGED << now, frameDue, rafPending >>
    /\ UNCHANGED gameVars

\* initThree and initRapier return, the Mediapipe libraries are loaded
InitSucceeds ==
    /\ pc = "scene"
    /\ pc' = "camera"
    /\ loadingMessage' = "Initializing Mediapipe"
    /\ boot' = boot \o << "initThree", "initRapier", "initMediapipe" >>
    /\ UNCHANGED << now, frameDue, rafPending >>
    /\ UNCHANGED gameVars

\* an initialisation step throws, or the Mediapipe libraries are missing
InitFails ==
    /\ pc \in {"init", "scene"}
    /\ pc' = "failed"
    /\ loadingMessage' = "Error"
    /\ UNCHANGED << now, frameDue, rafPending, boot >>
    /\ UNCHANGED gameVars

\* cameraHelper.start() resolves; its callback is queued
CameraStarts ==
    /\ pc = "camera"
    /\ pc' = "started"
    /\ boot' = Append(boot, "camera")
    /\ UNCHANGED << now, frameDue, rafPending, loadingMessage >>
    /\ UNCHANGED gameVars

\* seeded fault: the frame loop is started whether or not the camera did
CameraFails_StartsLoop ==
    /\ pc = "camera"
    /\ pc' = "started"
    /\ loadingMessage' = "Webcam error"
    /\ UNCHANGED << now, frameDue, rafPending, boot >>
    /\ UNCHANGED gameVars

\* cameraHelper.start() rejects
CameraFails ==
    /\ pc = "camera"
    /\ pc' = "failed"
    /\ loadingMessage' = "Webcam error"
    /\ UNCHANGED << now, frameDue, rafPending, boot >>
    /\ UNCHANGED gameVars

---------------------------------------------------------------------------
(* Events between frames *)

\* time passes; a timer that is due runs before the clock moves on
Tick(Deltas) ==
    /\ pc = "idle"
    /\ \A t \in timers : t.due > now
    /\ \E dt \in Deltas :
        /\ now + dt <= MaxTime
        /\ now' = now + dt
    /\ frameDue' = TRUE
    /\ UNCHANGED << pc, rafPending, loadingMessage, boot >>
    /\ UNCHANGED gameVars

\* seeded fault: a result without landmarks is not stored
onPoseResults_SkipsEmpty(Poses) ==
    /\ pc \in {"started", "idle"}
    /\ \E results \in Poses :
        /\ lastPoseResults' = IF PoseAvailable(results)
                               THEN results ELSE lastPoseResults
        /\ delivered' = results
    /\ UNCHANGED << pc, now, frameDue, rafPending, loadingMessage, boot,
                    isTPosing, tPoseStartTime, tPoseResetCooldownActive,
                    tposeIndicator, score, scoreText, ballJustHitPlayer,
                    ballBody, ballColor, limbNext, limbPos, meshVisible,
                    eventQueue, timers, flashTimeout, frame, run, holdResets >>

\* pose.send resolved: Mediapipe calls the handler with its result
onPoseResults(Poses) ==
    /\ pc \in {"started", "idle"}
    /\ \E results \in Poses :
        /\ lastPoseResults' = results
        /\ delivered' = results
    /\ UNCHANGED << pc, now, frameDue, rafPending, loadingMessage, boot, isTPosing,
                    tPoseStartTime, tPoseResetCooldownActive, tposeIndicator,
                    score, scoreText, ballJustHitPlayer, ballBody, ballColor,
                    limbNext, limbPos, meshVisible, eventQueue, timers,
                    flashTimeout, frame, run, holdResets >>

\* pose.send rejects: the camera's onFrame logs the error, onPoseResults is
\* not called
PoseSendFails ==
    /\ pc \in {"started", "idle"}
    /\ UNCHANGED vars

\* the callback of flashBallColor's setTimeout
FlashTimerFires ==
    /\ pc = "idle"
    /\ \E t \in timers :
        /\ t.kind = "flash"
        /\ t.due <= now
        /\ timers' = timers \ {t}
    /\ ballColor' = "white"
    /\ flashTimeout' = 0
    /\ UNCHANGED << pc, now, frameDue, rafPending, loadingMessage, boot,
                    lastPoseResults, delivered, isTPosing, tPoseStartTime,
                    tPoseResetCooldownActive, tposeIndicator, score, scoreText,
                    ballJustHitPlayer, ballBody, limbNext, limbPos, meshVisible,
                    eventQueue, frame, run, holdResets >>

\* the callback of the cooldown's setTimeout
CooldownTimerFires ==
    /\ pc = "idle"
    /\ \E t \in timers :
        /\ t.kind = "cooldown"
        /\ t.due <= now
        /\ timers' = timers \ {t}
    /\ tPoseResetCooldownActive' = FALSE
    /\ UNCHANGED << pc, now, frameDue, rafPending, loadingMessage, boot,
                    lastPoseResults, delivered, isTPosing, tPoseStartTime,
                    tposeIndicator,
                    score, scoreText, ballJustHitPlayer, ballBody, ballColor,
                    flashTimeout, limbNext, limbPos, meshVisible, eventQueue,
                    frame, run, holdResets >>

---------------------------------------------------------------------------
(* animate(), stage 0: the T-pose hold state machine *)

\* seeded fault: the threshold itself does not count
HoldLongEnough_Strict(duration) == duration > T_POSE_DURATION_THRESHOLD_MS

HoldLongEnough(duration) == duration >= T_POSE_DURATION_THRESHOLD_MS

\* seeded fault: the ball is put above the left shoulder
ShoulderSpawnX_LeftShoulder(landmarks) ==
    LET lShoulderPos == mapLandmarkToWorld(landmarks[L_SHOULDER])
        rShoulderPos == mapLandmarkToWorld(landmarks[R_SHOULDER])
    IN  IF lShoulderPos.ok /\ rShoulderPos.ok
        THEN Defined(lShoulderPos.x)
        ELSE Undefined

\* the spawn x of a hold-triggered reset: the midpoint of the mapped shoulders
ShoulderSpawnX(landmarks) ==
    LET lShoulderPos == mapLandmarkToWorld(landmarks[L_SHOULDER])
        rShoulderPos == mapLandmarkToWorld(landmarks[R_SHOULDER])
    IN  IF lShoulderPos.ok /\ rShoulderPos.ok
        THEN Defined((lShoulderPos.x + rShoulderPos.x) \div 2)
        ELSE Undefined

\* what the detector returns for the stored snapshot
Detected == PoseAvailable(lastPoseResults)
            /\ checkTPose(lastPoseResults.poseLandmarks)

\* seeded fault: the cooldown lasts a tenth of its time
CooldownTimers_Short(T) == SetTimeout(T, "cooldown", T_POSE_RESET_COOLDOWN_MS \div 10)

\* the cooldown's timer is armed after the cyan flash's
CooldownTimers(T) == SetTimeout(T, "cooldown", T_POSE_RESET_COOLDOWN_MS)

\* seeded fault: the reset forgets the score
TriggerReset_KeepsScore ==
    /\ \E rx \in RandomSamples, rz \in RandomSamples :
          ballBody' = resetBall(ShoulderSpawnX(lastPoseResults.poseLandmarks),
                                Undefined, rx, rz)
    /\ ballJustHitPlayer' = FALSE
    /\ isTPosing' = FALSE
    /\ tposeIndicator' = "none"
    /\ tPoseResetCooldownActive' = TRUE
    /\ ballColor' = "cyan"
    /\ flashTimeout' = FlashHandle(timers, flashTimeout)
    /\ timers' = CooldownTimers(
                    SetTimeout(FlashTimers(timers, flashTimeout), "flash", 300))
    /\ UNCHANGED << tPoseStartTime, score, scoreText >>

\* lines 410-434
TriggerReset ==
    /\ \E rx \in RandomSamples, rz \in RandomSamples :
          ballBody' = resetBall(ShoulderSpawnX(lastPoseResults.poseLandmarks),
                                Undefined, rx, rz)
    /\ ballJustHitPlayer' = FALSE
    /\ score' = 0
    /\ scoreText' = 0
    /\ isTPosing' = FALSE
    /\ tposeIndicator' = "none"
    /\ tPoseResetCooldownActive' = TRUE
    /\ ballColor' = "cyan"
    /\ flashTimeout' = FlashHandle(timers, flashTimeout)
    /\ timers' = CooldownTimers(
                    SetTimeout(FlashTimers(timers, flashTimeout), "flash", 300))
    /\ UNCHANGED tPoseStartTime

\* seeded fault: a new hold goes on from the start time of the last one
StartHold_StaleStart ==
    /\ isTPosing' = TRUE
    /\ tposeIndicator' = "block"
    /\ UNCHANGED << tPoseStartTime, tPoseResetCooldownActive, score, scoreText,
                    ballJustHitPlayer, ballBody, ballColor, timers,
                    flashTimeout >>

\* lines 401-405
StartHold ==
    /\ isTPosing' = TRUE
    /\ tPoseStartTime' = now
    /\ tposeIndicator' = "block"
    /\ UNCHANGED << tPoseResetCooldownActive, score, scoreText, ballJustHitPlayer,
                    ballBody, ballColor, timers, flashTimeout >>

\* seeded fault: leaving a hold without a reset leaves the indicator on
LeaveHold_KeepsIndicator ==
    /\ isTPosing' = FALSE
    /\ UNCHANGED << tposeIndicator, tPoseStartTime, tPoseResetCooldownActive,
                    score, scoreText, ballJustHitPlayer, ballBody, ballColor,
                    timers, flashTimeout >>

\* lines 439-442 and 444-448
LeaveHold ==
    /\ isTPosing' = FALSE
    /\ tposeIndicator' = "none"
    /\ UNCHANGED << tPoseStartTime, tPoseResetCooldownActive, score, scoreText,
                    ballJustHitPlayer, ballBody, ballColor, timers, flashTimeout >>

NoGestureChange ==
    UNCHANGED << isTPosing, tPoseStartTime, tposeIndicator,
                 tPoseResetCooldownActive, score, scoreText, ballJustHitPlayer,
                 ballBody, ballColor, timers, flashTimeout >>

\* seeded fault: the cooldown does not gate the gesture
GestureBranch_IgnoresCooldown ==
    IF PoseAvailable(lastPoseResults)
    THEN IF checkTPose(lastPoseResults.poseLandmarks)
         THEN IF ~isTPosing
              THEN "start"
              ELSE IF HoldLongEnough(now - tPoseStartTime) THEN "reset" ELSE "keep"
         ELSE IF isTPosing THEN "leave" ELSE "keep"
    ELSE IF isTPosing THEN "leave" ELSE "keep"

\* seeded fault: a hold survives a frame without landmarks
GestureBranch_KeepsOnLostPose ==
    IF PoseAvailable(lastPoseResults) /\ ~tPoseResetCooldownActive
    THEN IF checkTPose(lastPoseResults.poseLandmarks)
         THEN IF ~isTPosing
              THEN "start"
              ELSE IF HoldLongEnough(now - tPoseStartTime) THEN "reset" ELSE "keep"
         ELSE IF isTPosing THEN "leave" ELSE "keep"
    ELSE "keep"

\* which branch of lines 397-448 the frame takes
GestureBranch ==
    IF PoseAvailable(lastPoseResults) /\ ~tPoseResetCooldownActive
    THEN IF checkTPose(lastPoseResults.poseLandmarks)
         THEN IF ~isTPosing
              THEN "start"
              ELSE IF HoldLongEnough(now - tPoseStartTime) THEN "reset" ELSE "keep"
         ELSE IF isTPosing THEN "leave" ELSE "keep"
    ELSE IF isTPosing THEN "leave" ELSE "keep"

\* the run of frames with a true detection this frame belongs to: it is a
\* "hold" run when it began from Idle with no cooldown active
NextRun(fired) ==
    IF ~Detected
    THEN NoRun
    ELSE IF run.state = "none"
         THEN IF ~tPoseResetCooldownActive /\ ~isTPosing
              THEN [state |-> "hold", start |-> now, last |-> now, resets |-> 0]
              ELSE [state |-> "other", start |-> now, last |-> now, resets |-> 0]
         ELSE [run EXCEPT !.last = now, !.resets = @ + (IF fired THEN 1 ELSE 0)]

\* the frame callback starts: requestAnimationFrame, the clock, then stage 0
AnimateBegin ==
    /\ \/ pc = "started"
       \/ pc = "idle" /\ rafPending /\ frameDue
    /\ pc' = "limbs"
    /\ rafPending' = TRUE
    /\ frameDue' = FALSE
    /\ loadingMessage' = IF pc = "started" THEN "Webcam active" ELSE loadingMessage
    /\ LET branch == GestureBranch
       IN  /\ CASE branch = "start" -> StartHold
                [] branch = "reset" -> TriggerReset
                [] branch = "leave" -> LeaveHold
                [] OTHER            -> NoGestureChange
           /\ frame' = IF branch = "reset"
                       THEN [NewFrame EXCEPT !.hold = TRUE, !.cue = "cyan"]
                       ELSE NewFrame
           /\ run' = NextRun(branch = "reset")
           /\ holdResets' = IF branch = "reset"
                            THEN Append(holdResets, now)
                            ELSE holdResets
    /\ UNCHANGED << now, boot, lastPoseResults, delivered, limbNext, limbPos,
                    meshVisible,
                    eventQueue >>

---------------------------------------------------------------------------
(* animate(), stage 1: the limb proxies and their markers *)

\* updateKinematicCollider: without a target position nothing is set
updateKinematicCollider(next, limb, targetPos) ==
    IF targetPos.ok THEN targetPos ELSE next[limb]

\* updateMarkerMesh
updateMarkerMesh(targetPos) == targetPos.ok

\* where the proxy's body is once the coming physics step has run
LimbTarget(limb) ==
    IF limbNext[limb].ok
    THEN Vec(limbNext[limb].x, limbNext[limb].y, limbNext[limb].z)
    ELSE limbPos[limb]

UpdateLimbs ==
    /\ pc = "limbs"
    /\ pc' = "step"
    /\ IF PoseAvailable(lastPoseResults)
       THEN LET landmarks == lastPoseResults.poseLandmarks
                pos(l)    == mapLandmarkToWorld(landmarks[LimbJoint(l)])
            IN  /\ limbNext' = [l \in Limbs |->
                                   updateKinematicCollider(limbNext, l, pos(l))]
                /\ meshVisible' = [l \in Limbs |-> updateMarkerMesh(pos(l))]
       ELSE /\ meshVisible' = [l \in Limbs |-> FALSE]
            /\ UNCHANGED limbNext
    /\ UNCHANGED << now, frameDue, rafPending, loadingMessage, boot,
                    lastPoseResults, delivered,
                    isTPosing, tPoseStartTime, tPoseResetCooldownActive,
                    tposeIndicator, score, scoreText, ballJustHitPlayer,
                    ballBody, ballColor, limbPos, eventQueue, timers,
                    flashTimeout, frame, run, holdResets >>

---------------------------------------------------------------------------
(* animate(), stage 2: the physics step and the collision events *)

Handles == Limbs \cup {"ball", "ground"}

Event(h1, h2, started) == [handle1 |-> h1, handle2 |-> h2, started |-> started]

\* seeded fault: only the (ball, limb) handle order is recognised
collidedWithPlayer_OneOrder(ev) == ev.handle1 = "ball" /\ ev.handle2 \in Limbs

\* lines 488-497
collidedWithPlayer(ev) ==
    \/ ev.handle1 = "ball" /\ ev.handle2 \in Limbs
    \/ ev.handle2 = "ball" /\ ev.handle1 \in Limbs

\* seeded fault: the debounce flag is not consulted
Scores_NoDebounce(ev, justHit) == ev.started /\ collidedWithPlayer(ev)

\* line 499
Scores(ev, justHit) == ev.started /\ collidedWithPlayer(ev) /\ ~justHit

HasHit(batch) == \E i \in 1..Len(batch) : batch[i].started /\ collidedWithPlayer(batch[i])

\* physicsWorld.step(eventQueue): the kinematic bodies take their next
\* translation; the ball and the events are the library's
StepPhysics(Balls, Batches) ==
    /\ pc = "step"
    /\ limbPos' = [l \in Limbs |-> LimbTarget(l)]
    /\ limbNext' = [l \in Limbs |-> NoPoint]
    /\ \E b \in Balls : ballBody' = b
    /\ \E batch \in Batches :
        /\ score < MaxScore \/ ~HasHit(batch)
        /\ eventQueue' = batch
        /\ pc' = IF batch = << >> THEN "clamp" ELSE "drain"
    /\ UNCHANGED << now, frameDue, rafPending, loadingMessage, boot,
                    lastPoseResults, delivered,
                    isTPosing, tPoseStartTime, tPoseResetCooldownActive,
                    tposeIndicator, score, scoreText, ballJustHitPlayer,
                    ballColor, meshVisible, timers, flashTimeout, frame, run,
                    holdResets >>

Impulse == Vec(0, COLLISION_BASE_IMPULSE_Y, 0)

\* lines 499-506
ScoreHit ==
    /\ score' = score + 1
    /\ scoreText' = score + 1
    /\ ballJustHitPlayer' = TRUE
    /\ ballBody' = applyImpulse(ballBody, Impulse)
    /\ flashBallColor("green", 150)

\* the callback of drainCollisionEvents, for the event at the head of the queue
HandleCollision ==
    /\ pc = "drain"
    /\ eventQueue # << >>
    /\ LET ev   == Head(eventQueue)
           seen == IF ev.started /\ collidedWithPlayer(ev) THEN 1 ELSE 0
       IN  IF Scores(ev, ballJustHitPlayer)
           THEN /\ ScoreHit
                /\ frame' = [frame EXCEPT !.seen = @ + seen,
                                          !.hits = @ + 1,
                                          !.impulse = Vec(@.x + Impulse.x,
                                                          @.y + Impulse.y,
                                                          @.z + Impulse.z),
                                          !.cue = "green"]
           ELSE /\ frame' = [frame EXCEPT !.seen = @ + seen]
                /\ UNCHANGED << score, scoreText, ballJustHitPlayer, ballBody,
                                ballColor, timers, flashTimeout >>
    /\ eventQueue' = Tail(eventQueue)
    /\ pc' = IF Tail(eventQueue) = << >> THEN "clamp" ELSE "drain"
    /\ UNCHANGED << now, frameDue, rafPending, loadingMessage, boot,
                    lastPoseResults, delivered,
                    isTPosing, tPoseStartTime, tPoseResetCooldownActive,
                    tposeIndicator, limbNext, limbPos, meshVisible, run,
                    holdResets >>

---------------------------------------------------------------------------
(* animate(), stages 4-8: the stabilizer, the bounds check, the render *)

\* seeded fault: the clamp also stops the sideways motion
ClampLinvel_StopsSideways(linvel) ==
    IF linvel.y > MAX_UPWARD_VELOCITY
    THEN Vec(0, MAX_UPWARD_VELOCITY, 0)
    ELSE linvel

\* lines 520-523
ClampLinvel(linvel) ==
    IF linvel.y > MAX_UPWARD_VELOCITY
    THEN Vec(linvel.x, MAX_UPWARD_VELOCITY, linvel.z)
    ELSE linvel

ClampVelocity ==
    /\ pc = "clamp"
    /\ pc' = "flag"
    /\ ballBody' = [ballBody EXCEPT !.linvel = ClampLinvel(@)]
    /\ UNCHANGED << now, frameDue, rafPending, loadingMessage, boot,
                    lastPoseResults, delivered,
                    isTPosing, tPoseStartTime, tPoseResetCooldownActive,
                    tposeIndicator, score, scoreText, ballJustHitPlayer,
                    ballColor, limbNext, limbPos, meshVisible, eventQueue,
                    timers, flashTimeout, frame, run, holdResets >>

\* seeded fault: the thresholds themselves clear the flag
FlagClears_Inclusive(ball) == ball.linvel.y <= 0 - 100 \/ ball.pos.y <= 500

\* line 526
FlagClears(ball) == ball.linvel.y < 0 - 100 \/ ball.pos.y < 500

ResetHitFlag ==
    /\ pc = "flag"
    /\ pc' = "zaxis"
    /\ ballJustHitPlayer' = IF FlagClears(ballBody) THEN FALSE ELSE ballJustHitPlayer
    /\ UNCHANGED << now, frameDue, rafPending, loadingMessage, boot,
                    lastPoseResults, delivered,
                    isTPosing, tPoseStartTime, tPoseResetCooldownActive,
                    tposeIndicator, score, scoreText, ballBody, ballColor,
                    limbNext, limbPos, meshVisible, eventQueue, timers,
                    flashTimeout, frame, run, holdResets >>

\* line 531: newZVel = linvel.z * Z_DAMPING - position.z * Z_CORRECTION_FACTOR
NewZVel(ball) ==
    (ball.linvel.z * Z_DAMPING_TENTHS - ball.pos.z * Z_CORRECTION_TENTHS) \div 10

ConstrainZ ==
    /\ pc = "zaxis"
    /\ pc' = "bounds"
    /\ ballBody' = [ballBody EXCEPT !.linvel.z = NewZVel(ballBody)]
    /\ UNCHANGED << now, frameDue, rafPending, loadingMessage, boot,
                    lastPoseResults, delivered,
                    isTPosing, tPoseStartTime, tPoseResetCooldownActive,
                    tposeIndicator, score, scoreText, ballJustHitPlayer,
                    ballColor, limbNext, limbPos, meshVisible, eventQueue,
                    timers, flashTimeout, frame, run, holdResets >>

\* line 536
groundLevel == groundMeshY + ballRadius

\* seeded fault: the cooldown does not suppress the drop reset
Dropped_IgnoresCooldown(pos) == pos.y < groundLevel

\* line 537
Dropped(pos) == pos.y < groundLevel /\ ~tPoseResetCooldownActive

\* seeded fault: the depth bound is forgotten
OutOfBounds_NoDepth(pos) == pos.y > 8000 \/ Abs(pos.x) > 5000

\* line 543
OutOfBounds(pos) == pos.y > 8000 \/ Abs(pos.x) > 5000 \/ Abs(pos.z) > 2000

\* seeded fault: a drop costs one point instead of all
DropReset_Decrement ==
    /\ \E rx \in RandomSamples, rz \in RandomSamples :
          ballBody' = resetBall(Undefined, Undefined, rx, rz)
    /\ score' = score - 1
    /\ scoreText' = score - 1
    /\ ballJustHitPlayer' = FALSE
    /\ flashBallColor("red", 250)

\* seeded fault: the drop reset leaves the score
DropReset_KeepsScore ==
    /\ \E rx \in RandomSamples, rz \in RandomSamples :
          ballBody' = resetBall(Undefined, Undefined, rx, rz)
    /\ ballJustHitPlayer' = FALSE
    /\ flashBallColor("red", 250)
    /\ UNCHANGED << score, scoreText >>

\* lines 538-542
DropReset ==
    /\ \E rx \in RandomSamples, rz \in RandomSamples :
          ballBody' = resetBall(Undefined, Undefined, rx, rz)
    /\ score' = 0
    /\ scoreText' = 0
    /\ ballJustHitPlayer' = FALSE
    /\ flashBallColor("red", 250)

\* lines 544-546
OutOfBoundsReset ==
    /\ \E rx \in RandomSamples, rz \in RandomSamples :
          ballBody' = resetBall(Undefined, Undefined, rx, rz)
    /\ ballJustHitPlayer' = FALSE
    /\ flashBallColor("yellow", 250)
    /\ UNCHANGED << score, scoreText >>

CheckBounds ==
    /\ pc = "bounds"
    /\ pc' = "render"
    /\ IF Dropped(ballBody.pos)
       THEN /\ DropReset
            /\ frame' = [frame EXCEPT !.drop = TRUE, !.cue = "red"]
       ELSE IF OutOfBounds(ballBody.pos)
       THEN /\ OutOfBoundsReset
            /\ frame' = [frame EXCEPT !.oob = TRUE, !.cue = "yellow"]
       ELSE UNCHANGED << ballBody, score, scoreText, ballJustHitPlayer,
                         ballColor, timers, flashTimeout, frame >>
    /\ UNCHANGED << now, frameDue, rafPending, loadingMessage, boot,
                    lastPoseResults, delivered,
                    isTPosing, tPoseStartTime, tPoseResetCooldownActive,
                    tposeIndicator, limbNext, limbPos, meshVisible, eventQueue,
                    run, holdResets >>

\* renderer.render: the frame callback returns
Render ==
    /\ pc = "render"
    /\ pc' = "idle"
    /\ frame' = NoFrame
    /\ UNCHANGED << now, frameDue, rafPending, loadingMessage, boot,
                    lastPoseResults, delivered,
                    isTPosing, tPoseStartTime, tPoseResetCooldownActive,
                    tposeIndicator, score, scoreText, ballJustHitPlayer,
                    ballBody, ballColor, limbNext, limbPos, meshVisible,
                    eventQueue, timers, flashTimeout, run, holdResets >>

---------------------------------------------------------------------------
(* What the physics library may return from one step *)

BallRising  == Ball(Vec(0, 1500, 0), Vec(0, 2000, 0))
BallFalling == Ball(Vec(200, 1500, 100), Vec(0, 0 - 1000, 50))
BallLow     == Ball(Vec(0, 300, 0), Vec(0, 0, 0))
BallOnEdge  == Ball(Vec(5000, 0 - 250, 2000), Vec(0, 0 - 100, 0))
BallDropped == Ball(Vec(0, 0 - 300, 0), Vec(0, 0 - 2000, 0))
BallHigh    == Ball(Vec(0, 8100, 0), Vec(0, 3000, 0))
BallWide    == Ball(Vec(0 - 5100, 1500, 0), Vec(0 - 1000, 0, 0))
BallDeep    == Ball(Vec(0, 1500, 2100), Vec(0, 0, 500))
BallFast    == Ball(Vec(0, 1500, 0), Vec(300, 7000, 200))
BallSlow    == Ball(Vec(0, 500, 0), Vec(0, 0 - 100, 0))

HitLeftKnee   == Event("ball", "leftKnee", TRUE)
HitRightKnee  == Event("ball", "rightKnee", TRUE)
HitRightFoot  == Event("rightFoot", "ball", TRUE)
LeaveLeftFoot == Event("ball", "leftFoot", FALSE)
HitGround     == Event("ball", "ground", TRUE)

---------------------------------------------------------------------------
(* Specifications *)

Next(Deltas, Poses, Balls, Batches) ==
    \/ RapierInits
    \/ InitSucceeds
    \/ InitFails
    \/ CameraStarts
    \/ CameraFails
    \/ Tick(Deltas)
    \/ onPoseResults(Poses)
    \/ PoseSendFails
    \/ FlashTimerFires
    \/ CooldownTimerFires
    \/ AnimateBegin
    \/ UpdateLimbs
    \/ StepPhysics(Balls, Batches)
    \/ HandleCollision
    \/ ClampVelocity
    \/ ResetHitFlag
    \/ ConstrainZ
    \/ CheckBounds
    \/ Render

\* the ball and the score: every ball sample and event batch, coarse time
BallDeltas == {700, 2000}
BallPoses == {PoseT}
BallSamples == {BallRising, BallFalling, BallLow, BallOnEdge, BallDropped,
                BallHigh, BallWide, BallDeep, BallFast, BallSlow}
BallBatches == { << >>, << HitLeftKnee >>, << HitRightFoot >>,
                 << HitLeftKnee, HitRightKnee >>, << HitGround >>,
                 << LeaveLeftFoot, HitRightFoot, HitLeftKnee >> }

Spec == Init /\ [][Next(BallDeltas, BallPoses, BallSamples, BallBatches)]_vars

\* the hold state machine: frame timestamps one millisecond around the threshold
HoldDeltas == {699, 700, 2000}
HoldPoses == {EmptyResults, PoseT, PoseDown}
HoldSamples == {BallRising, BallDropped}
HoldBatches == { << >>, << HitLeftKnee >> }

SpecHold == Init /\ [][Next(HoldDeltas, HoldPoses, HoldSamples, HoldBatches)]_vars

\* the limb proxies: every pose sample
LimbDeltas == {700}
LimbPoses == {EmptyResults, PoseT, PoseTLegLost, PoseDown, PoseDim}
LimbSamples == {BallRising}
LimbBatches == { << >>, << HitLeftKnee >> }

SpecLimbs == Init /\ [][Next(LimbDeltas, LimbPoses, LimbSamples, LimbBatches)]_vars

\* the spawn of a hold-triggered reset: players standing at different places
SpawnDeltas == {700}
SpawnPoses == {PoseT, PoseTAside, PoseTDimShoulders}

SpecSpawn == Init /\ [][Next(SpawnDeltas, SpawnPoses, LimbSamples, LimbBatches)]_vars

\* the cooldown's timer: the browser keeps the clock, the timers and the frame
\* callbacks going, and a callback that has started runs to its end
FairDeltas == {700}
FairPoses == {PoseT, PoseDown}

FrameRuns ==
    \/ UpdateLimbs
    \/ StepPhysics(HoldSamples, HoldBatches)
    \/ HandleCollision
    \/ ClampVelocity
    \/ ResetHitFlag
    \/ ConstrainZ
    \/ CheckBounds
    \/ Render

SpecFair ==
    /\ Init
    /\ [][Next(FairDeltas, FairPoses, HoldSamples, HoldBatches)]_vars
    /\ WF_vars(Tick(FairDeltas))
    /\ WF_vars(FlashTimerFires)
    /\ WF_vars(CooldownTimerFires)
    /\ WF_vars(AnimateBegin)
    /\ WF_vars(FrameRuns)

\* the detector and the mapper: the first frame on every snapshot of three
\* families of landmark sets
StandingLegs == Legs(Lm(56, 70, 90), Lm(44, 70, 90), Lm(56, 96, 90),
                     Lm(44, 96, 90))

\* a joint of the T-pose: absent, unseen, at the detector's threshold, above it
DimOptions(j) ==
    {NoLm} \cup {[Arms(90, 90)[j] EXCEPT !.visibility = v] : v \in {0, 40, 41}}

\* T geometry, every combination of absent and dim arm joints
VisibilityInputs ==
    {Results(ArmsOf(ls, rs, le, re, lw, rw) @@ StandingLegs) :
        ls \in DimOptions(L_SHOULDER), rs \in DimOptions(R_SHOULDER),
        le \in DimOptions(L_ELBOW), re \in DimOptions(R_ELBOW),
        lw \in DimOptions(L_WRIST), rw \in DimOptions(R_WRIST)}

\* every arm joint seen, positions on both sides of each tolerance
PositionInputs ==
    {Results(ArmsOf(Lm(lsx, 30, 90), Lm(rsx, 30, 90), Lm(lex, ley, 90),
                    Lm(rex, rey, 90), Lm(lwx, lwy, 90), Lm(rwx, rwy, 90))
             @@ StandingLegs) :
        lsx \in {40, 60}, rsx \in {40, 60},
        lex \in {30, 50, 70}, rex \in {30, 50, 70},
        lwx \in {10, 20, 80, 90}, rwx \in {10, 20, 80, 90},
        ley \in {59, 60}, rey \in {59, 60},
        lwy \in {60, 89}, rwy \in {60, 89}}

\* a leg joint: absent, unseen, below, at and above the mapper's threshold
LegOptions(px, py) == {NoLm} \cup {Lm(px, py, v) : v \in {0, 29, 30, 90}}

LegInputs ==
    {Results(Arms(90, 90) @@ Legs(lk, rk, la, ra)) :
        lk \in LegOptions(56, 70), rk \in LegOptions(44, 70),
        la \in LegOptions(56, 96), ra \in LegOptions(44, 105)}

PoseInputs == VisibilityInputs \cup PositionInputs \cup LegInputs

\* the camera has started and the first result has arrived
InitPose ==
    /\ pc = "started"
    /\ now = 0
    /\ frameDue = FALSE
    /\ rafPending = FALSE
    /\ loadingMessage = "Initializing Mediapipe"
    /\ boot = << "RAPIER.init", "initThree", "initRapier", "initMediapipe",
                 "camera" >>
    /\ lastPoseResults \in PoseInputs
    /\ delivered = lastPoseResults
    /\ isTPosing = FALSE
    /\ tPoseStartTime = 0
    /\ tPoseResetCooldownActive = FALSE
    /\ tposeIndicator = "none"
    /\ score = 0
    /\ scoreText = 0
    /\ ballJustHitPlayer = FALSE
    /\ ballBody = Ball(Vec(0, START_Y, 0), Vec(0, 0, 0))
    /\ ballColor = "white"
    /\ limbNext = [l \in Limbs |-> NoPoint]
    /\ limbPos = [l \in Limbs |-> Parked]
    /\ meshVisible = [l \in Limbs |-> TRUE]
    /\ eventQueue = << >>
    /\ timers = {}
    /\ flashTimeout = 0
    /\ frame = NoFrame
    /\ run = NoRun
    /\ holdResets = << >>

\* animate(), once through
FirstFrame ==
    \/ AnimateBegin
    \/ UpdateLimbs
    \/ StepPhysics(LimbSamples, LimbBatches)
    \/ HandleCollision
    \/ ClampVelocity
    \/ ResetHitFlag
    \/ ConstrainZ
    \/ CheckBounds
    \/ Render

SpecPose == InitPose /\ [][FirstFrame]_vars

---------------------------------------------------------------------------
(* Properties *)

\* a limb with a usable landmark in the stored snapshot
LimbSeen(limb) ==
    LET lm == lastPoseResults.poseLandmarks[LimbJoint(limb)]
    IN  lm.present /\ lm.visibility >= 30

\* C1: after the limb-update stage of a frame whose snapshot has no landmark
\* for a limb, or one with visibility below 0.3, that limb's proxy is targeted
\* at the parked position.
C1_UnseenLimbIsParked ==
    (pc = "step" /\ PoseAvailable(lastPoseResults))
        => \A l \in Limbs : ~LimbSeen(l) => LimbTarget(l) = Parked

\* C2: in a frame with no pose snapshot (none stored, or one without
\* landmarks) all four proxies are parked before the physics step.
C2_NoPoseParksAllLimbs ==
    (pc = "step" /\ ~PoseAvailable(lastPoseResults))
        => \A l \in Limbs : LimbTarget(l) = Parked

C4_ResetsAreCooldownApart ==
    \A i \in 1..(Len(holdResets) - 1) : holdResets[i + 1] >= holdResets[i] + 2000

\* a second reset in one unbroken run of true detections, with frames in between
C4_SecondResetInOneRun ==
    /\ Len(holdResets) = 2
    /\ run.state = "hold"
    /\ run.resets = 2
    /\ holdResets[2] - holdResets[1] = 2800

\* a start-type event pairing the ball with a limb proxy, in either order
BallLimbStart(ev) ==
    /\ ev.started
    /\ \E l \in {"leftKnee", "rightKnee", "leftFoot", "rightFoot"} :
          \/ ev.handle1 = "ball" /\ ev.handle2 = l
          \/ ev.handle1 = l /\ ev.handle2 = "ball"

\* C5: at most one event of a batch scores: a frame counts at most one hit and
\* one impulse, the score rises by at most 1 in a frame, and once an event of the
\* batch has scored the later ones change neither score, flag nor ball.
C5_OneHitPerBatch ==
    /\ [](/\ frame.hits <= 1
          /\ frame.impulse.y <= 700
          /\ frame.active => score <= frame.score0 + 1)
    /\ [][(pc = "drain" /\ frame.hits >= 1) =>
            /\ score' = score
            /\ ballJustHitPlayer' = ballJustHitPlayer
            /\ ballBody' = ballBody]_vars

\* a batch with two ball-limb start events has been drained and scored once
C5_TwoContactsOneHit ==
    /\ pc = "clamp"
    /\ frame.seen = 2
    /\ frame.hits = 1
    /\ score = frame.score0 + 1

\* C6: a ball-limb start event processed with the flag clear adds 1 to the
\* score, sets the flag, applies the impulse (0, 0.7, 0) and shows the green cue.
C6_HitScoresAndKicks ==
    [][(pc = "drain" /\ BallLimbStart(Head(eventQueue)) /\ ~ballJustHitPlayer) =>
          /\ score' = score + 1
          /\ ballJustHitPlayer'
          /\ frame'.impulse = Vec(frame.impulse.x, frame.impulse.y + 700,
                                  frame.impulse.z)
          /\ ballBody'.pos = ballBody.pos
          /\ ballBody'.linvel.x = ballBody.linvel.x
          /\ ballBody'.linvel.z = ballBody.linvel.z
          /\ ballBody'.linvel.y > ballBody.linvel.y
          /\ ballColor' = "green"
          /\ \E t \in timers' : /\ t.id = flashTimeout'
                                 /\ t.kind = "flash"
                                 /\ t.due = now + 150]_vars

\* the one contact event of a batch has scored the second point
C6_HitScored ==
    /\ pc = "clamp"
    /\ frame.seen = 1
    /\ frame.hits = 1
    /\ frame.impulse = Vec(0, 700, 0)
    /\ ballJustHitPlayer
    /\ ballColor = "green"
    /\ score = 2

\* C7: the score is a non-negative integer in every reachable state.
C7_ScoreNonNegative == score \in Nat

\* a drop reset at score 0, after a gesture reset
C7_DropAtZero ==
    /\ pc = "render"
    /\ frame.drop
    /\ frame.score0 = 0
    /\ frame.hits = 0
    /\ Len(holdResets) >= 1

\* C8: at the end of a frame that performed a drop reset the score is 0, the
\* flag is clear, the ball is at height 4.0 and the red cue is showing.
C8_DropResetResult ==
    (pc = "render" /\ frame.drop) =>
        /\ score = 0
        /\ ~ballJustHitPlayer
        /\ ballBody.pos.y = 4000
        /\ ballColor = "red"
        /\ \E t \in timers : t.id = flashTimeout /\ t.kind = "flash"
                               /\ t.due = now + 250

\* a drop reset in a frame that scored a hit
C8_DropAfterHit ==
    /\ pc = "render"
    /\ frame.drop
    /\ frame.hits = 1
    /\ frame.score0 >= 1

\* C9: the bounds check performs a drop reset exactly when the ball is below
\* -0.25 and the cooldown is not active; under the cooldown a ball below that
\* height keeps the score.
C9_DropExactlyWhenLowAndNoCooldown ==
    [][pc = "bounds" =>
          /\ frame'.drop <=> (ballBody.pos.y < 0 - 250 /\ ~tPoseResetCooldownActive)
          /\ (ballBody.pos.y < 0 - 250 /\ tPoseResetCooldownActive)
                 => score' = score]_vars

\* a frame under the cooldown ends with the ball still below the drop height
C9_NoDropUnderCooldown ==
    /\ pc = "render"
    /\ tPoseResetCooldownActive
    /\ ballBody.pos.y < 0 - 250
    /\ ~frame.drop
    /\ score > 0

\* C10: when the bounds check performs no drop reset and the ball is above 8,
\* or beyond 5 sideways, or beyond 2 in depth, the ball respawns in the default
\* spawn area, the flag is cleared, the yellow cue shows and the score stays.
C10_OutOfBoundsReset ==
    [][(/\ pc = "bounds"
        /\ ~frame'.drop
        /\ \/ ballBody.pos.y > 8000
           \/ ballBody.pos.x > 5000 \/ ballBody.pos.x < 0 - 5000
           \/ ballBody.pos.z > 2000 \/ ballBody.pos.z < 0 - 2000) =>
          /\ frame'.oob
          /\ ballBody'.pos.y = 4000
          /\ ballBody'.pos.x >= 0 - 500 /\ ballBody'.pos.x < 500
          /\ ballBody'.pos.z >= 0 - 100 /\ ballBody'.pos.z < 100
          /\ ballBody'.linvel = Vec(0, 0 - 500, 0)
          /\ ~ballJustHitPlayer'
          /\ ballColor' = "yellow"
          /\ score' = score]_vars

\* an out-of-bounds reset that kept a positive score
C10_RespawnKeepsScore ==
    /\ pc = "render"
    /\ frame.oob
    /\ ~frame.drop
    /\ ballColor = "yellow"
    /\ score > 0
    /\ ballBody.pos.y = 4000

\* C11: the frame whose gesture update fires the hold-triggered reset leaves
\* that update with the score 0 (shown as 0), the debounce flag clear, the ball
\* respawned at height 4.0 falling at 0.5, the hold state Idle and the cooldown
\* active with its timer armed for 2000 ms later.
C11_HoldResetEffects ==
    (pc = "limbs" /\ frame.hold) =>
        /\ score = 0
        /\ scoreText = 0
        /\ ~ballJustHitPlayer
        /\ ballBody.pos.y = START_Y
        /\ ballBody.linvel = Vec(0, 0 - 500, 0)
        /\ ~isTPosing
        /\ tPoseResetCooldownActive
        /\ \E t \in timers : t.kind = "cooldown"
                              /\ t.due = now + T_POSE_RESET_COOLDOWN_MS

\* a hold-triggered reset of a frame that began with a positive score
C11_ResetWithPositiveScore ==
    pc = "limbs" /\ frame.hold /\ frame.held /\ frame.score0 > 0

\* C12: in every reachable state an active cooldown implies that the hold state
\* is Idle, whatever the detector returns for the stored snapshot.
C12_CooldownImpliesIdle == tPoseResetCooldownActive => ~isTPosing

\* a frame inside the cooldown window has run its gesture update on a
\* snapshot the detector accepts
C12_DetectedUnderCooldown ==
    /\ pc = "limbs"
    /\ ~frame.hold
    /\ tPoseResetCooldownActive
    /\ Detected
    /\ ~isTPosing

\* C13: a frame that begins Holding with no pose landmarks available leaves
\* its gesture update Idle and performs no reset there: score, ball, debounce
\* flag, cooldown and timers are as they were.
C13_LostPoseEndsHoldWithoutReset ==
    [][(pc # "limbs" /\ pc' = "limbs" /\ isTPosing
            /\ ~PoseAvailable(lastPoseResults))
          => /\ ~isTPosing'
             /\ ~frame'.hold
             /\ score' = score
             /\ scoreText' = scoreText
             /\ ballBody' = ballBody
             /\ ballJustHitPlayer' = ballJustHitPlayer
             /\ tPoseResetCooldownActive' = tPoseResetCooldownActive
             /\ timers' = timers]_vars

\* a hold of at least 700 ms ended by a frame without landmarks, the score
\* still positive
C13_LongHoldLost ==
    /\ pc = "limbs"
    /\ frame.held
    /\ ~PoseAvailable(lastPoseResults)
    /\ now - tPoseStartTime >= T_POSE_DURATION_THRESHOLD_MS
    /\ ~isTPosing
    /\ ~frame.hold
    /\ score > 0

FlashPending == {t \in timers : t.kind = "flash"}

CooldownPending == {t \in timers : t.kind = "cooldown"}

\* C14: at any time at most one colour-flash timer and at most one cooldown
\* timer are pending; the pending flash timer is the one the flash handle
\* names, and a cooldown timer is pending only while the cooldown is active.
C14_OneTimerPerKind ==
    /\ Cardinality(FlashPending) <= 1
    /\ Cardinality(CooldownPending) <= 1
    /\ \A t \in FlashPending : t.id = flashTimeout
    /\ CooldownPending # {} => tPoseResetCooldownActive

\* a frame whose red or yellow flash replaced the green flash of its own hit
\* while a cooldown timer was pending
C14_FlashReplaced ==
    /\ pc = "render"
    /\ frame.hits = 1
    /\ frame.oob
    /\ CooldownPending # {}
    /\ \E t \in FlashPending : t.due = now + 250

\* the frame loop has started: a frame is running or registered
FrameLoopStarted ==
    \/ rafPending
    \/ frame.active
    \/ pc \in {"limbs", "step", "drain", "clamp", "flag", "zaxis", "bounds",
               "render", "idle"}

\* C15: the stored snapshot is always the result delivered last, through any
\* interleaving of deliveries, failed inferences and frames; a frame that is
\* due runs whatever has been delivered, and its limb update and the hold it
\* starts are those of the result delivered last.
C15_LatestSnapshotWins ==
    /\ lastPoseResults = delivered
    /\ (pc = "idle" /\ rafPending /\ frameDue) => ENABLED AnimateBegin
    /\ pc = "step" =>
          \A l \in Limbs :
              meshVisible[l] <=>
                  /\ PoseAvailable(delivered)
                  /\ mapLandmarkToWorld(delivered.poseLandmarks[LimbJoint(l)]).ok
    /\ (pc = "limbs" /\ isTPosing /\ ~frame.held) =>
          /\ PoseAvailable(delivered)
          /\ checkTPose(delivered.poseLandmarks)

\* a frame has read a result without landmarks that overwrote one with
\* landmarks: its markers are hidden, a proxy still stands where the earlier
\* result put it
C15_OverwrittenSnapshotRead ==
    /\ pc = "step"
    /\ delivered = EmptyResults
    /\ \A l \in Limbs : ~meshVisible[l]
    /\ \E l \in Limbs : limbPos[l] # Parked

\* the start-up steps in the order init() and initMediapipe() take them
BootSteps == << "RAPIER.init", "initThree", "initRapier", "initMediapipe",
               "camera" >>

\* C19: the frame loop has started only if RAPIER.init, the scene, the
\* physics world and the camera start all succeeded; once a start-up step has
\* failed an error message is shown, no frame has run or is registered, and
\* nothing happens any more.
C19_LoopOnlyAfterStartup ==
    /\ [](FrameLoopStarted => boot = BootSteps)
    /\ [](pc = "failed" =>
            /\ loadingMessage \in {"Error", "Webcam error"}
            /\ Len(boot) < Len(BootSteps)
            /\ ~FrameLoopStarted
            /\ now = 0
            /\ lastPoseResults = NoResults)
    /\ [][pc = "failed" => UNCHANGED vars]_vars

\* the camera start failed after everything else had succeeded
C19_CameraStartFailed ==
    /\ pc = "failed"
    /\ loadingMessage = "Webcam error"
    /\ boot = << "RAPIER.init", "initThree", "initRapier", "initMediapipe" >>

\* C20: the clamp stage turns an upward speed above 5 into exactly 5 and
\* leaves x and z as they were, leaves a velocity with an upward speed of at
\* most 5 unchanged, and never moves the ball; from the clamp to the end of
\* the frame the upward speed is at most 5.
C20_UpwardSpeedClamped ==
    /\ [](pc \in {"flag", "zaxis", "bounds", "render"} =>
            ballBody.linvel.y <= 5000)
    /\ [][pc = "clamp" =>
            /\ ballBody'.pos = ballBody.pos
            /\ ballBody'.linvel =
                  IF ballBody.linvel.y > 5000
                  THEN Vec(ballBody.linvel.x, 5000, ballBody.linvel.z)
                  ELSE ballBody.linvel]_vars

\* the step left the ball at (0.3, 7, 0.2): the clamp made it (0.3, 5, 0.2)
C20_SevenBecomesFive ==
    /\ pc = "flag"
    /\ ballBody.linvel = Vec(300, 5000, 200)

\* C16: a first frame on a snapshot in which any of the six arm joints is
\* missing or has visibility 0.4 or less does not start a hold, whatever the
\* positions of the joints: the detector has returned false.
C16_DimJointNeverDetected ==
    (pc = "limbs"
        /\ \E j \in ArmJoints :
              LET lm == lastPoseResults.poseLandmarks[j]
              IN  ~lm.present \/ lm.visibility <= 40)
      => (~isTPosing /\ tposeIndicator = "none")

\* T geometry, the right elbow at visibility 0.4 and the other five joints
\* at 0.41: no hold started
C16_ElbowAtThreshold ==
    /\ pc = "limbs"
    /\ \A j \in ArmJoints :
          lastPoseResults.poseLandmarks[j] =
              [Arms(90, 90)[j] EXCEPT
                  !.visibility = IF j = R_ELBOW THEN 40 ELSE 41]
    /\ ~isTPosing

\* C17: after a frame's limb update a limb whose landmark is absent or has
\* visibility below 0.3 got no position (no target set, marker hidden), and a
\* limb whose landmark has visibility 0.3 or more got a world point at or
\* above the ground in the plane z = 0 (target set, marker shown).
C17_MapperVisibilityThreshold ==
    pc = "step" =>
        \A l \in Limbs :
            LET lm == lastPoseResults.poseLandmarks[LimbJoint(l)]
            IN  IF ~lm.present \/ lm.visibility < 30
                THEN ~limbNext[l].ok /\ ~meshVisible[l]
                ELSE /\ limbNext[l].ok
                     /\ meshVisible[l]
                     /\ limbNext[l].y >= 0
                     /\ limbNext[l].z = 0

\* one limb at the threshold mapped, one just below it and an absent one not
C17_AtAndBelowThreshold ==
    /\ pc = "step"
    /\ lastPoseResults.poseLandmarks[L_KNEE] = Lm(56, 70, 30)
    /\ lastPoseResults.poseLandmarks[R_KNEE] = Lm(44, 70, 29)
    /\ lastPoseResults.poseLandmarks[L_ANKLE] = NoLm
    /\ limbNext["leftKnee"].ok
    /\ ~limbNext["rightKnee"].ok
    /\ ~limbNext["leftFoot"].ok

\* the joint that takes a joint's role when left and right are swapped
Opposite(j) ==
    CASE j = L_SHOULDER -> R_SHOULDER
      [] j = R_SHOULDER -> L_SHOULDER
      [] j = L_ELBOW    -> R_ELBOW
      [] j = R_ELBOW    -> L_ELBOW
      [] j = L_WRIST    -> R_WRIST
      [] j = R_WRIST    -> L_WRIST
      [] j = L_KNEE     -> R_KNEE
      [] j = R_KNEE     -> L_KNEE
      [] j = L_ANKLE    -> R_ANKLE
      [] j = R_ANKLE    -> L_ANKLE

\* left and right roles swapped, every x mirrored (x -> 1 - x)
Mirrored(landmarks) ==
    [j \in DOMAIN landmarks |->
        LET lm == landmarks[Opposite(j)]
        IN  IF lm.present THEN [lm EXCEPT !.x = 100 - @] ELSE lm]

\* C18: what the detector returns for a snapshot (a first frame starts a hold
\* exactly when it returns true) is what it returns for the snapshot with
\* left and right roles swapped and every x mirrored.
C18_DetectorMirrorSymmetric ==
    pc = "limbs" =>
        (isTPosing <=> checkTPose(Mirrored(lastPoseResults.poseLandmarks)))

\* a hold started on a T-pose that is not its own mirror image
C18_AsymmetricPoseDetected ==
    /\ pc = "limbs"
    /\ isTPosing
    /\ Mirrored(lastPoseResults.poseLandmarks) # lastPoseResults.poseLandmarks

\* C21: the stabilizer clears the debounce flag when the ball's vertical
\* velocity after the clamp is below -0.1 or its height is below 0.5 and
\* leaves it otherwise; the clamp and the z constraint leave it, and the
\* bounds check changes it only by a reset, which clears it. So a flag that is
\* set after the stabilizer goes with a vertical velocity of at least -0.1
\* and a height of at least 0.5.
C21_StabilizerClearsFlag ==
    /\ [](pc \in {"zaxis", "bounds", "render"} /\ ballJustHitPlayer =>
            ballBody.linvel.y >= 0 - 100 /\ ballBody.pos.y >= 500)
    /\ [][/\ pc = "flag" =>
               ballJustHitPlayer' =
                   IF ballBody.linvel.y < 0 - 100 \/ ballBody.pos.y < 500
                   THEN FALSE ELSE ballJustHitPlayer
          /\ pc \in {"clamp", "zaxis"} => ballJustHitPlayer' = ballJustHitPlayer
          /\ pc = "bounds" =>
               ballJustHitPlayer' =
                   IF frame'.drop \/ frame'.oob
                   THEN FALSE ELSE ballJustHitPlayer]_vars

\* a flag set in an earlier frame survived the stabilizer and the bounds
\* check with the ball exactly at both thresholds
C21_FlagKeptAtThresholds ==
    /\ pc = "render"
    /\ frame.hits = 0
    /\ ballJustHitPlayer
    /\ ballBody.linvel.y = 0 - 100
    /\ ballBody.pos.y = 500

\* C22: a frame that begins Holding less than 700 ms after the hold's start
\* and finds no T-pose returns to Idle without a reset; a frame that starts a
\* hold sets the start time to its own timestamp, and nothing else changes
\* the start time. So a hold's start never lies before the current run of
\* true detections, and a reset fires only 700 ms or more into that run.
C22_InterruptedHoldStartsAfresh ==
    /\ [](isTPosing => run.state # "none" /\ tPoseStartTime >= run.start)
    /\ [](pc = "limbs" /\ frame.hold =>
            run.state # "none"
            /\ now - run.start >= 700)
    /\ [][/\ (pc # "limbs" /\ pc' = "limbs" /\ isTPosing /\ ~Detected
                 /\ now - tPoseStartTime < 700)
               => /\ ~isTPosing'
                  /\ ~frame'.hold
                  /\ score' = score
                  /\ ballBody' = ballBody
                  /\ tPoseResetCooldownActive' = tPoseResetCooldownActive
          /\ (~isTPosing /\ isTPosing') => tPoseStartTime' = now
          /\ ~(~isTPosing /\ isTPosing')
               => tPoseStartTime' = tPoseStartTime]_vars

\* a hold 699 ms old was ended by a frame whose snapshot is not a T-pose,
\* the score still positive
C22_HoldInterruptedAt699 ==
    /\ pc = "limbs"
    /\ frame.held
    /\ PoseAvailable(lastPoseResults)
    /\ ~Detected
    /\ now - tPoseStartTime = 699
    /\ ~isTPosing
    /\ ~frame.hold
    /\ score > 0

\* a landmark the mapper gives a world position
Maps(lm) == lm.present /\ lm.visibility >= 30

\* the x and z resetBall draws when it is given none
DefaultSpawnX == {(rx - 50) * 10 : rx \in RandomSamples}

DefaultSpawnZ == {(rz - 50) * 2 : rz \in RandomSamples}

\* C23: the ball of a hold-triggered reset is at height 4.0; its x is the
\* midpoint of the two mapped shoulder x positions when both shoulders map,
\* and it is at a default spawn location when either does not.
C23_SpawnAboveShoulders ==
    (pc = "limbs" /\ frame.hold) =>
        LET lShoulder == lastPoseResults.poseLandmarks[L_SHOULDER]
            rShoulder == lastPoseResults.poseLandmarks[R_SHOULDER]
        IN  /\ ballBody.pos.y = 4000
            /\ IF Maps(lShoulder) /\ Maps(rShoulder)
               THEN 2 * ballBody.pos.x =
                        (50 - lShoulder.x) * 35 + (50 - rShoulder.x) * 35
               ELSE /\ ballBody.pos.x \in DefaultSpawnX
                    /\ ballBody.pos.z \in DefaultSpawnZ

\* a reset with the shoulders at x = 0.70 and 0.50: the ball is at x = -0.35
C23_SpawnOffCentre ==
    /\ pc = "limbs"
    /\ frame.hold
    /\ lastPoseResults = PoseTAside
    /\ ballBody.pos.x = 0 - 350
    /\ ballBody.pos.y = 4000

\* C24: the T-pose indicator is shown exactly when the hold state is
\* Holding: the step that enters Holding shows it, every step that leaves
\* Holding (detection false, pose lost, reset triggered) hides it, and no
\* other step touches it.
C24_IndicatorShownIffHolding ==
    /\ [](tposeIndicator = IF isTPosing THEN "block" ELSE "none")
    /\ [][IF isTPosing' # isTPosing
          THEN tposeIndicator' = IF isTPosing' THEN "block" ELSE "none"
          ELSE tposeIndicator' = tposeIndicator]_vars

\* a hold that was ended by a snapshot that is not a T-pose: the indicator,
\* shown during the hold, is hidden again
C24_IndicatorHiddenOnExit ==
    /\ pc = "limbs"
    /\ frame.held
    /\ PoseAvailable(lastPoseResults)
    /\ ~frame.hold
    /\ ~isTPosing
    /\ tposeIndicator = "none"

\* C25: an active cooldown is eventually deactivated (within the time the
\* model's clock covers: its timer is due by MaxTime). Until then its timer
\* stays pending with the due time it was armed with, whatever frames, pose
\* deliveries and flashes happen; it is removed only when it is due and the
\* cooldown is deactivated in the same step; an active cooldown always has
\* its timer pending.
C25_CooldownEnds ==
    /\ (tPoseResetCooldownActive /\ \A t \in CooldownPending : t.due <= MaxTime)
          ~> ~tPoseResetCooldownActive
    /\ [](tPoseResetCooldownActive => CooldownPending # {})
    /\ [][\A t \in CooldownPending :
              \/ t \in timers' /\ tPoseResetCooldownActive'
              \/ t.due <= now /\ ~tPoseResetCooldownActive' /\ t \notin timers']_vars

\* after a cooldown has ended a fallen ball is reset again
C25_DropResetAfterCooldown ==
    /\ pc = "render"
    /\ Len(holdResets) = 1
    /\ now >= holdResets[1] + 2000
    /\ ~tPoseResetCooldownActive
    /\ frame.drop

==========================================================================
